---- MODULE Spec2Model ----
(***************************************************************************)
(* tap2tzx (src/src/main.rs): conversion of a TAP tape image, a sequence   *)
(* of length-prefixed blocks, into a TZX image of standard speed data      *)
(* blocks.  The model follows one call of tap2tzx statement by statement,  *)
(* with the output sink (any std::io::Write) as its environment, and lets  *)
(* the caller convert the same buffer a second time into a fresh sink.     *)
(***************************************************************************)
EXTENDS Integers, Sequences, FiniteSets, TLC

\* ---------------------------------------------------------------- bounds
MaxLen == 6       \* longest enumerated input buffer, in bytes
MaxByte == 2      \* enumerated input bytes are 0..MaxByte

Byte == 0..MaxByte

\* the buffer of test::single_block: one block of 19 bytes
SingleBlockTap ==
    << 19, 0, 0, 0, 77, 97, 110, 105, 99, 77, 105, 110, 101, 114,
       69, 0, 10, 0, 69, 0, 31 >>

Inputs == UNION { [1..n -> Byte] : n \in 0..MaxLen } \cup { SingleBlockTap }

\* ------------------------------------------------------------ the state
VARIABLES
    tap,          \* the input buffer (never modified)
    pc,           \* position of the call in tap2tzx
    pos,          \* read cursor (local of tap2tzx)
    block_len,    \* length prefix of the block being converted
    block_count,  \* blocks counted so far (local of tap2tzx)
    tzx,          \* bytes the sink has accepted
    calls,        \* the calls made on the sink, in order
    sinkErr,      \* the sink has returned an error to this call
    reads,        \* length prefixes read from tap by this call
    ret,          \* value returned to the caller
    run,          \* 1 for the first conversion of tap, 2 for the second
    prev          \* how the first conversion ended

vars == << tap, pc, pos, block_len, block_count, tzx, calls, sinkErr,
           reads, ret, run, prev >>

Terminal == { "done", "failed", "panicked" }

NoRet == [kind |-> "none", val |-> 0]
Ok(n) == [kind |-> "ok", val |-> n]
MalformedInput(offset) == [kind |-> "malformed", val |-> offset]
SinkFailure == [kind |-> "sink", val |-> 0]
NoPrev == [pc |-> "none", ret |-> NoRet, tzx |-> << >>]

\* --------------------------------------------------------- pure helpers
\* Rust's t[a..b]
Slice(t, a, b) == SubSeq(t, a + 1, b)

size == Len(tap)

\* the magic start bytes plus version
TzxHeaderBadVersion == << 90, 88, 84, 97, 112, 101, 33, 26, 1, 10 >>
TzxHeader == << 90, 88, 84, 97, 112, 101, 33, 26, 1, 20 >>

\* block id 0x10 and the pause of 1000 ms, little endian
BlockIdAndPause == << 16, 232, 3 >>

\* read_le_u16 on the slice input = tap[pos..]
read_le_u16_NoOffset(input, p) ==
    IF 2 > Len(input)
      THEN [ok |-> FALSE, err |-> MalformedInput(Len(input)), val |-> 0]
      ELSE [ok |-> TRUE, err |-> NoRet, val |-> input[1] + 256 * input[2]]
read_le_u16_BigEndian(input, p) ==
    IF 2 > Len(input)
      THEN [ok |-> FALSE, err |-> MalformedInput(p), val |-> 0]
      ELSE [ok |-> TRUE, err |-> NoRet, val |-> 256 * input[1] + input[2]]
read_le_u16(input, p) ==
    IF 2 > Len(input)
      THEN [ok |-> FALSE, err |-> MalformedInput(p), val |-> 0]
      ELSE [ok |-> TRUE, err |-> NoRet, val |-> input[1] + 256 * input[2]]

\* pos += block_len as usize
AdvancePosStuck(p, l) == p
AdvancePos(p, l) == p + l

\* block_count += 1, for empty and non-empty blocks alike
CountBlockNonEmpty(c, l) == IF l # 0 THEN c + 1 ELSE c
CountBlock(c, l) == c + 1

\* let mut block_count = 0
BlockCountStatic == block_count
BlockCountInit == 0

\* the `?` operator: an Err leaves the function at once
PropagateIgnored(ok, next) == next
Propagate(ok, next) == IF ok THEN next ELSE "failed"

\* what a sink may do with write_all(buf): accept all of buf, or accept a
\* proper prefix of it and return an error
WriteAllOutcomes(buf) ==
    { [ok |-> n = Len(buf), written |-> SubSeq(buf, 1, n)] : n \in 0..Len(buf) }

\* one write_all(buf)? on the sink, continuing at next when it succeeds
WriteAll(buf, next) ==
    \E o \in WriteAllOutcomes(buf) :
        /\ tzx' = tzx \o o.written
        /\ calls' = Append(calls, [op |-> "write_all", buf |-> buf])
        /\ sinkErr' = (sinkErr \/ ~o.ok)
        /\ pc' = Propagate(o.ok, next)
        /\ ret' = IF Propagate(o.ok, next) = "failed" THEN SinkFailure ELSE ret

\* -------------------------------------------------------------- actions
Init ==
    /\ tap \in Inputs
    /\ pc = "start"
    /\ pos = 0
    /\ block_len = 0
    /\ block_count = 0
    /\ tzx = << >>
    /\ calls = << >>
    /\ sinkErr = FALSE
    /\ reads = 0
    /\ ret = NoRet
    /\ run = 1
    /\ prev = NoPrev

\* write_tzx_header(tzx)?; let mut pos = 0; let mut block_count = 0;
WriteHeader ==
    /\ pc = "start"
    /\ WriteAll(TzxHeader, "loop")
    /\ pos' = 0
    /\ block_count' = BlockCountInit
    /\ block_len' = 0
    /\ UNCHANGED << tap, reads, run, prev >>

\* while pos < size { let block_len = read_le_u16(..)?; pos += 2;
ReadPrefix ==
    /\ pc = "loop"
    /\ pos < size
    /\ LET r == read_le_u16(Slice(tap, pos, size), pos) IN
         IF r.ok
           THEN /\ block_len' = r.val
                /\ pos' = pos + 2
                /\ reads' = reads + 1
                /\ pc' = IF r.val # 0 THEN "blk_hdr" ELSE "advance"
                /\ ret' = ret
           ELSE /\ pc' = "failed"
                /\ ret' = r.err
                /\ UNCHANGED << block_len, pos, reads >>
    /\ UNCHANGED << tap, block_count, tzx, calls, sinkErr, run, prev >>

\* write_tzx_block: out.write_all(&[0x10, 0xE8, 0x03])?
WriteBlockIdAndPause ==
    /\ pc = "blk_hdr"
    /\ WriteAll(BlockIdAndPause, "blk_len")
    /\ UNCHANGED << tap, pos, block_len, block_count, reads, run, prev >>

\* write_tzx_block: out.write_all(&mem[pos - 2..pos])?
WriteBlockLength ==
    /\ pc = "blk_len"
    /\ WriteAll(Slice(tap, pos - 2, pos), "blk_data")
    /\ UNCHANGED << tap, pos, block_len, block_count, reads, run, prev >>

\* write_tzx_block: out.write_all(&mem[pos..pos + block_len as usize]),
\* whose result tap2tzx propagates with `?`
WriteBlockData ==
    /\ pc = "blk_data"
    /\ pos + block_len <= size
    /\ WriteAll(Slice(tap, pos, pos + block_len), "advance")
    /\ UNCHANGED << tap, pos, block_len, block_count, reads, run, prev >>

\* the slice mem[pos..pos + block_len] is out of range: the index panics
SlicePanic ==
    /\ pc = "blk_data"
    /\ pos + block_len > size
    /\ pc' = "panicked"
    /\ UNCHANGED << tap, pos, block_len, block_count, tzx, calls, sinkErr,
                    reads, ret, run, prev >>

\* pos += block_len as usize; block_count += 1; }
Advance ==
    /\ pc = "advance"
    /\ pos' = AdvancePos(pos, block_len)
    /\ block_count' = CountBlock(block_count, block_len)
    /\ pc' = "loop"
    /\ UNCHANGED << tap, block_len, tzx, calls, sinkErr, reads, ret, run, prev >>

\* the loop condition fails: tzx.flush()?; Ok(block_count)
Flush ==
    /\ pc = "loop"
    /\ ~(pos < size)
    /\ \E ok \in BOOLEAN :
         /\ calls' = Append(calls, [op |-> "flush", buf |-> << >>])
         /\ sinkErr' = (sinkErr \/ ~ok)
         /\ pc' = Propagate(ok, "done")
         /\ ret' = IF Propagate(ok, "done") = "failed"
                     THEN SinkFailure ELSE Ok(block_count)
    /\ UNCHANGED << tap, pos, block_len, block_count, tzx, reads, run, prev >>

\* the caller converts the same buffer again, into a fresh sink
Rerun ==
    /\ pc \in Terminal
    /\ run = 1
    /\ ~sinkErr
    /\ prev' = [pc |-> pc, ret |-> ret, tzx |-> tzx]
    /\ run' = 2
    /\ pc' = "start"
    /\ tzx' = << >>
    /\ calls' = << >>
    /\ reads' = 0
    /\ ret' = NoRet
    /\ UNCHANGED << tap, pos, block_len, block_count, sinkErr >>

Next ==
    \/ WriteHeader
    \/ ReadPrefix
    \/ WriteBlockIdAndPause
    \/ WriteBlockLength
    \/ WriteBlockData
    \/ SlicePanic
    \/ Advance
    \/ Flush
    \/ Rerun

Spec == Init /\ [][Next]_vars

FairSpec == Spec /\ WF_vars(Next)

\* ------------------------------------------------ the formats, as specified
\* the destination container's signature "ZXTape!", 0x1A, and version 1.20
ZXTapeSignature == << 90, 88, 84, 97, 112, 101, 33, 26, 1, 20 >>

\* the length prefix stored at offset i of t
PrefixAt(t, i) == t[i + 1] + 256 * t[i + 2]

\* how a scan of t from offset i ends: "ok" when the blocks end exactly at
\* the end of t, "truncated" when a prefix is cut short, "overrun" when a
\* declared payload runs past the end
RECURSIVE ScanFrom(_, _)
ScanFrom(t, i) ==
    IF i >= Len(t) THEN "ok"
    ELSE IF i + 2 > Len(t) THEN "truncated"
    ELSE IF i + 2 + PrefixAt(t, i) > Len(t) THEN "overrun"
    ELSE ScanFrom(t, i + 2 + PrefixAt(t, i))

WellFormed(t) == ScanFrom(t, 0) = "ok"

\* the output blocks of the source blocks of a well-formed t from offset i
RECURSIVE ExpectedBlocksFrom(_, _)
ExpectedBlocksFrom(t, i) ==
    IF i >= Len(t) THEN << >>
    ELSE LET l == PrefixAt(t, i) IN
         (IF l = 0 THEN << >>
          ELSE << 16, 232, 3, t[i + 1], t[i + 2] >> \o SubSeq(t, i + 3, i + 2 + l))
         \o ExpectedBlocksFrom(t, i + 2 + l)

ExpectedTzx(t) == ZXTapeSignature \o ExpectedBlocksFrom(t, 0)

\* 5 + L summed over the non-empty blocks of a well-formed t from offset i
RECURSIVE BlockBytesFrom(_, _)
BlockBytesFrom(t, i) ==
    IF i >= Len(t) THEN 0
    ELSE LET l == PrefixAt(t, i) IN
         (IF l = 0 THEN 0 ELSE 5 + l) + BlockBytesFrom(t, i + 2 + l)

\* the number of source blocks of a well-formed t from offset i, and the
\* number of those that are not empty
RECURSIVE SourceBlocksFrom(_, _)
SourceBlocksFrom(t, i) ==
    IF i >= Len(t) THEN 0 ELSE 1 + SourceBlocksFrom(t, i + 2 + PrefixAt(t, i))

RECURSIVE NonEmptyBlocksFrom(_, _)
NonEmptyBlocksFrom(t, i) ==
    IF i >= Len(t) THEN 0
    ELSE (IF PrefixAt(t, i) # 0 THEN 1 ELSE 0)
         + NonEmptyBlocksFrom(t, i + 2 + PrefixAt(t, i))

\* the offset just after the first k source blocks of t
RECURSIVE OffsetAfter(_, _)
OffsetAfter(t, k) ==
    IF k = 0 THEN 0
    ELSE LET i == OffsetAfter(t, k - 1) IN
         IF i + 2 > Len(t) THEN i + 2 ELSE i + 2 + PrefixAt(t, i)

\* the number of standard speed data blocks in the TZX bytes o from offset i
RECURSIVE TzxBlocksFrom(_, _)
TzxBlocksFrom(o, i) ==
    IF i + 5 > Len(o) THEN 0
    ELSE 1 + TzxBlocksFrom(o, i + 5 + o[i + 4] + 256 * o[i + 5])

\* ----------------------------------------------------------------- claims
\* C1: for a well-formed input and a working sink the call succeeds and the
\* sink holds the 10 header bytes followed, for each non-empty source block
\* in order, by 0x10, 0xE8, 0x03, the length prefix as read and the payload;
\* its length is 10 plus 5 + L summed over the non-empty blocks.
C1_WellFormedOutput ==
    (WellFormed(tap) /\ pc \in Terminal /\ ~sinkErr) =>
        /\ pc = "done"
        /\ tzx = ExpectedTzx(tap)
        /\ Len(tzx) = 10 + BlockBytesFrom(tap, 0)

C1_Witness ==
    /\ pc = "done"
    /\ WellFormed(tap)
    /\ NonEmptyBlocksFrom(tap, 0) >= 1
    /\ SourceBlocksFrom(tap, 0) > NonEmptyBlocksFrom(tap, 0)
    /\ tzx = ExpectedTzx(tap)

C3_OverrunReturnsError ==
    (ScanFrom(tap, 0) = "overrun" /\ pc \in Terminal) =>
        (pc = "failed" /\ ret.kind \in { "malformed", "sink" })

\* C4: when a length prefix is expected at pos and exactly one byte remains,
\* the call fails with the malformed-input error carrying offset pos, and
\* nothing is counted, read or written for that prefix.
C4_TruncatedPrefix ==
    [][ (pc = "loop" /\ pos = size - 1) =>
          /\ pc' = "failed"
          /\ ret' = MalformedInput(pos)
          /\ block_count' = block_count
          /\ reads' = reads
          /\ tzx' = tzx
          /\ calls' = calls ]_vars

C4_Witness ==
    /\ pc = "failed"
    /\ pos > 0
    /\ pos = size - 1
    /\ ret = MalformedInput(pos)
    /\ block_count = reads

\* C5: the header is the first thing written and is written once, before any
\* length prefix is read; with a working sink the sink's content starts with
\* the 10 header bytes, and the empty input gives the header and count 0.
C5_HeaderFirstAndOnce ==
    /\ pc = "start" => (reads = 0 /\ tzx = << >> /\ calls = << >>)
    /\ calls # << >> =>
         /\ calls[1] = [op |-> "write_all", buf |-> ZXTapeSignature]
         /\ \A i \in 2..Len(calls) : calls[i].buf # ZXTapeSignature
    /\ (pc # "start" /\ ~sinkErr) =>
         (Len(tzx) >= 10 /\ SubSeq(tzx, 1, 10) = ZXTapeSignature)
    /\ (pc = "done" /\ tap = << >>) => (tzx = ZXTapeSignature /\ ret = Ok(0))

C5_Witness ==
    /\ pc = "failed"
    /\ ret.kind = "malformed"
    /\ reads >= 1
    /\ Len(calls) >= 4
    /\ SubSeq(tzx, 1, 10) = ZXTapeSignature

\* C6: on success the returned value is the number of non-empty TZX blocks
\* written to the output.
C6_CountIsBlocksWritten ==
    pc = "done" => ret.val = TzxBlocksFrom(tzx, 10)

\* C7: once a call on the sink has failed the conversion has returned that
\* sink error: no later call on the sink, no later read of the input, and
\* no block count.
C7_SinkErrorPropagates ==
    /\ [](sinkErr => (pc = "failed" /\ ret = SinkFailure))
    /\ [][ sinkErr => (calls' = calls /\ tzx' = tzx /\ reads' = reads
                        /\ pos' = pos /\ ret' = ret) ]_vars

C7_Witness ==
    /\ sinkErr
    /\ pc = "failed"
    /\ Len(calls) = 4
    /\ calls[4].op = "write_all"
    /\ Len(tzx) > 15

\* C8: two conversions of the same buffer, each into its own fresh working
\* sink, end the same way and leave the same bytes in their sinks.
C8_Deterministic ==
    (run = 2 /\ pc \in Terminal /\ ~sinkErr) =>
        (pc = prev.pc /\ ret = prev.ret /\ tzx = prev.tzx)

C8_Witness ==
    /\ run = 2
    /\ pc = "done"
    /\ prev.pc = "done"
    /\ ret.val >= 2
    /\ ret = prev.ret
    /\ Len(tzx) > 10
    /\ tzx = prev.tzx

\* C9: when a block's declared length overruns the buffer no byte of that
\* block reaches the sink: at the failure the sink holds the header and the
\* complete output blocks of the earlier source blocks.
C9_NoByteOfOverrunBlock ==
    pc = "panicked" => tzx = ExpectedTzx(Slice(tap, 0, pos - 2))

\* C10: the cursor never moves backwards; after k counted blocks it stands
\* just after the k-th block, each block moving it by 2 + L; the call needs
\* at most ceil(len/2) iterations and ends; on success the cursor equals the
\* length of the input, which is the sum of 2 + L over the counted blocks.
C10_ForwardScanTerminates ==
    /\ [](/\ pc = "loop" => pos = OffsetAfter(tap, block_count)
          /\ pc = "advance" => pos >= OffsetAfter(tap, block_count) + 2
          /\ pc = "done" => (pos = size /\ size = OffsetAfter(tap, ret.val))
          /\ reads + (IF ret.kind = "malformed" THEN 1 ELSE 0) <= (size + 1) \div 2)
    /\ [][ pc # "start" => pos' >= pos ]_vars
    /\ [](pc = "start" => <>(pc \in Terminal))

C10_Witness ==
    /\ pc = "done"
    /\ ret.val >= 2
    /\ pos = size
    /\ size = OffsetAfter(tap, 2)
    /\ NonEmptyBlocksFrom(tap, 0) >= 1
====
